---- MODULE Spec2Model ----
(***************************************************************************)
(* Recursive-descent parser with panic-mode recovery                       *)
(* (RecursiveDescentParserPanicMode2.py).                                  *)
(*                                                                         *)
(* The parser is modelled as a stack machine: one frame per active call of *)
(* a Parser method, one action per method, each action a CASE over the     *)
(* position inside the method.  The lexer is a lazy generator: a token is  *)
(* chosen when the parser pulls it with next(self.lexer, None).            *)
(***************************************************************************)
EXTENDS Integers, Sequences, FiniteSets, TLC

\* Largest number of tokens the lexer yields before it is exhausted.
MaxTokens == 9

\* Largest number of characters of a text given to lexer().
MaxChars == 4

VARIABLES
    cur,          \* self.current_token (None when absent)
    pos,          \* cursor: index of cur in the token stream, 0 before parse()
    panic_mode,   \* self.panic_mode
    stack,        \* active calls, innermost last
    ret,          \* value returned by the call that returned last
    outcome,      \* "running", "returned", or the exception that left parse()
    raiser,       \* the method that raised the exception
    result,       \* the node parse() returned
    diags,        \* diagnostics printed by program()
    obs,          \* observations about the run, read only by the properties
    input_code,   \* the text given to lexer(), a sequence of characters
    scan,         \* number of characters re.finditer has gone past
    line_number,  \* the lexer's line_number
    column,       \* the lexer's column
    yielded,      \* the token the lexer yielded last
    exhausted     \* the lexer's generator has returned

parservars ==
    <<cur, pos, panic_mode, stack, ret, outcome, raiser, result, diags, obs>>
lexvars == <<input_code, scan, line_number, column, yielded, exhausted>>
vars ==
    <<cur, pos, panic_mode, stack, ret, outcome, raiser, result, diags, obs,
      input_code, scan, line_number, column, yielded, exhausted>>

(***************************************************************************)
(* Tokens and nodes                                                        *)
(***************************************************************************)
\* Token kinds, in the order of token_specification (WHITESPACE is dropped).
Kinds ==
    {"BEGIN", "END", "PRINT", "FOR", "TO", "INTEGER", "REAL", "STRING",
     "ASSIGN", "COMMA", "ID", "FLOAT", "INT", "STRING_LITERAL", "OPERATOR"}

\* Texts a token of each kind carries; a text is a sequence of pieces so that
\* f-string concatenation can be modelled.  An OPERATOR token's text includes
\* the whitespace its pattern [+\-*/]\s+ matches.
IdNames == {"A", "B"}
OperatorTexts == {"+ ", "* "}
Texts(k) ==
    CASE k = "ID" -> {<<n>> : n \in IdNames}
      [] k = "OPERATOR" -> {<<o>> : o \in OperatorTexts}
      [] k = "ASSIGN" -> {<<":=">>}
      [] k = "COMMA" -> {<<",">>}
      [] k = "FLOAT" -> {<<"2.5">>}
      [] k = "INT" -> {<<"1">>}
      [] k = "STRING_LITERAL" -> {<<"\"s\"">>}
      [] OTHER -> {<<k>>}

Token(type, value) == [type |-> type, value |-> value]
Tokens == UNION {{Token(k, v) : v \in Texts(k)} : k \in Kinds}

None == [type |-> "None", value |-> <<>>]
NoValue == <<>>

\* A node records each child by its summary: the child's kind, its value and
\* the number of its own children (0 for a token or None).  The call that
\* builds a node hands it on in this form, so every node of the tree is seen
\* with its children once, when it is returned.
Summary(x) ==
    [type |-> x.type, value |-> x.value,
     arity |-> IF "children" \in DOMAIN x THEN Len(x.children) ELSE 0]

Node(type, children, value) ==
    [type |-> type,
     children |-> [i \in 1..Len(children) |-> Summary(children[i])],
     value |-> value]

(***************************************************************************)
(* The lexer: token_specification, token_pattern and lexer()               *)
(***************************************************************************)
\* The characters the texts given to lexer() are made of.
Alphabet == {"T", "O", "E", "N", "D", "1", "+", " ", "\n"}

Letters ==
    {"A", "B", "C", "D", "E", "F", "G", "H", "I", "J", "K", "L", "M", "N", "O",
     "P", "Q", "R", "S", "T", "U", "V", "W", "X", "Y", "Z",
     "a", "b", "c", "d", "e", "f", "g", "h", "i", "j", "k", "l", "m", "n", "o",
     "p", "q", "r", "s", "t", "u", "v", "w", "x", "y", "z"}
Digits == {"0", "1", "2", "3", "4", "5", "6", "7", "8", "9"}
\* \s
Whitespace == {" ", "\t", "\n", "\r", "\f"}

\* The token names in the order of token_specification: the order of the
\* alternatives of token_pattern.
TokenNamesIdFirst ==
    <<"ID", "BEGIN", "END", "PRINT", "FOR", "TO", "INTEGER", "REAL", "STRING",
      "ASSIGN", "COMMA", "FLOAT", "INT", "STRING_LITERAL", "OPERATOR",
      "WHITESPACE">>

TokenNames ==
    <<"BEGIN", "END", "PRINT", "FOR", "TO", "INTEGER", "REAL", "STRING",
      "ASSIGN", "COMMA", "ID", "FLOAT", "INT", "STRING_LITERAL", "OPERATOR",
      "WHITESPACE">>

\* The patterns that are literal texts.
Literal ==
    [BEGIN |-> <<"B", "E", "G", "I", "N">>,
     END |-> <<"E", "N", "D">>,
     PRINT |-> <<"P", "R", "I", "N", "T">>,
     FOR |-> <<"F", "O", "R">>,
     TO |-> <<"T", "O">>,
     INTEGER |-> <<"I", "N", "T", "E", "G", "E", "R">>,
     REAL |-> <<"R", "E", "A", "L">>,
     STRING |-> <<"S", "T", "R", "I", "N", "G">>,
     ASSIGN |-> <<":", "=">>,
     COMMA |-> <<",">>]

\* The character of s at index i, "" beyond the end.
At(s, i) == IF i \in 1..Len(s) THEN s[i] ELSE ""

\* The length of the longest run of characters of class in s from index i.
RECURSIVE RunLen(_, _, _)
RunLen(s, i, class) ==
    IF At(s, i) \in class THEN 1 + RunLen(s, i + 1, class) ELSE 0

\* The length of the match of the literal text w in s at index i, 0 for none.
Lit(s, i, w) ==
    IF i + Len(w) - 1 <= Len(s) /\ SubSeq(s, i, i + Len(w) - 1) = w
    THEN Len(w) ELSE 0

\* [+-]?\d+ : the length of the match in s at index i, 0 for none.
SignedDigits(s, i) ==
    LET sign == IF At(s, i) \in {"+", "-"} THEN 1 ELSE 0
        d == RunLen(s, i + sign, Digits)
    IN  IF d > 0 THEN sign + d ELSE 0

\* The length of the match of the pattern called name in s at index i, 0
\* when the pattern does not match there.
MatchLen(name, s, i) ==
    CASE name \in DOMAIN Literal -> Lit(s, i, Literal[name])
      [] name = "ID" ->
           IF At(s, i) \in Letters
           THEN 1 + RunLen(s, i + 1, Letters \cup Digits) ELSE 0
      [] name = "FLOAT" ->
           LET whole == SignedDigits(s, i)
               frac == RunLen(s, i + whole + 1, Digits)
               e == i + whole + 1 + frac
               exponent == IF At(s, e) \in {"E", "e"} /\ SignedDigits(s, e + 1) > 0
                           THEN 1 + SignedDigits(s, e + 1) ELSE 0
           IN  IF whole > 0 /\ At(s, i + whole) = "." /\ frac > 0
               THEN whole + 1 + frac + exponent ELSE 0
      [] name = "INT" -> SignedDigits(s, i)
      [] name = "STRING_LITERAL" ->
           LET quotes == {j \in (i + 1)..Len(s) : s[j] = "\""}
               closing == CHOOSE j \in quotes : \A k \in quotes : j <= k
           IN  IF At(s, i) = "\"" /\ quotes # {} THEN closing - i + 1 ELSE 0
      [] name = "OPERATOR" ->
           IF At(s, i) \in {"+", "-", "*", "/"} /\ RunLen(s, i + 1, Whitespace) > 0
           THEN 1 + RunLen(s, i + 1, Whitespace) ELSE 0
      [] name = "WHITESPACE" -> RunLen(s, i, Whitespace)

\* The first alternative of token_pattern, in the order names, that matches
\* in s at index i: its index in names, 0 if none matches.
FirstMatching(names, s, i) ==
    LET hits == {a \in 1..Len(names) : MatchLen(names[a], s, i) > 0}
    IN  IF hits = {} THEN 0 ELSE CHOOSE a \in hits : \A b \in hits : a <= b

\* re.finditer: the leftmost index from which token_pattern matches in s,
\* looking from index i on; 0 if there is none.
NextMatch(s, i) ==
    LET starts == {j \in i..Len(s) : FirstMatching(TokenNames, s, j) > 0}
    IN  IF starts = {} THEN 0 ELSE CHOOSE j \in starts : \A k \in starts : j <= k

\* Token(name, value, line_number, column); start is the index in the text
\* at which the match starts (match.start() + 1).
NoToken ==
    [type |-> "None", value |-> <<>>, line_number |-> 0, column |-> 0,
     start |-> 0]
LexToken(name, value, line, col, start) ==
    [type |-> name, value |-> value, line_number |-> line, column |-> col,
     start |-> start]

\* lexer() before its first step (lines 33-34), given the text.
LexerInit(text) ==
    /\ input_code = text
    /\ scan = 0
    /\ line_number = 1
    /\ column = 1
    /\ yielded = NoToken
    /\ exhausted = FALSE

\* One pass of the loop over re.finditer (lines 36-43): the next match is
\* found, its token yielded unless it is whitespace, the line counted up and
\* the column set back.
lexer ==
    /\ ~exhausted
    /\ UNCHANGED parservars
    /\ UNCHANGED input_code
    /\ LET i == NextMatch(input_code, scan + 1) IN
       IF i = 0 THEN
           /\ exhausted' = TRUE
           /\ UNCHANGED <<scan, line_number, column, yielded>>
       ELSE
           LET name == TokenNames[FirstMatching(TokenNames, input_code, i)]
               len == MatchLen(name, input_code, i)
               value == SubSeq(input_code, i, i + len - 1)
           IN  /\ yielded' = IF name # "WHITESPACE"
                             THEN LexToken(name, value, line_number, column, i)
                             ELSE yielded
               /\ scan' = i + len - 1
               /\ line_number' = line_number + 1
               /\ column' = 1
               /\ exhausted' = FALSE

(***************************************************************************)
(* Sets of token kinds the methods test the current token against          *)
(***************************************************************************)
StatementStart == {"PRINT", "INTEGER", "REAL", "STRING", "ID", "FOR"}
StatementSync == StatementStart \cup {"END"}
TypeKeywords == {"INTEGER", "REAL", "STRING"}
\* Skip loops that stop at END only.
ProgramSyncEndOnly == {"END"}
ForLoopSyncEndOnly == {"END"}

ProgramSync == {"END", "BEGIN"}
ForLoopSync == {"ID", "END"}
TermStart == {"ID", "INT", "FLOAT", "STRING_LITERAL"}
\* expression() compares the token type with the operator characters.
ExpressionOperators == {"+", "-", "*", "/"}

(***************************************************************************)
(* Frames                                                                  *)
(***************************************************************************)
\* p0, m0, h0: the cursor, the mode and whether a token was present when the
\* call was made, kept for the calls the properties speak about (consume and
\* expression).
Observed == {"consume", "expression"}
Frame(proc, arg) ==
    [proc |-> proc, pc |-> "entry", arg |-> arg, kids |-> <<>>,
     sv |-> None, sv2 |-> None,
     p0 |-> IF proc \in Observed THEN pos ELSE 0,
     m0 |-> proc \in Observed /\ panic_mode,
     h0 |-> proc \in Observed /\ cur # None]

Top == stack[Len(stack)]
Rest == SubSeq(stack, 1, Len(stack) - 1)
Running(proc) == outcome = "running" /\ stack # <<>> /\ Top.proc = proc
Present == cur # None

(***************************************************************************)
(* The grammar of the language, as a recognizer of token-kind streams:     *)
(*   Program    := BEGIN Statements END                                    *)
(*   Statement  := PRINT StringLiteral | Type ID (COMMA ID)*               *)
(*               | ID ASSIGN Expression                                    *)
(*               | FOR ID ASSIGN Expression TO Expression Statements END   *)
(*   Expression := Term (OPERATOR Term)*                                   *)
(* ph is what the recognizer expects next, depth the number of open FOR    *)
(* loops, count the number of statements started in the program's own      *)
(* statement list (each PRINT, declaration, FOR loop and assignment).      *)
(* declType and names are the type keyword and the names of the latest     *)
(* declaration, kept until the first name of the next one; pending is the  *)
(* type keyword of a declaration whose first name is still to come.        *)
(* forStart and forEnd are the texts of the first token of the start and   *)
(* of the end expression of the latest FOR loop of the program's own       *)
(* statement list, <<>> while not read.                                    *)
(* ph = "rej": the tokens pulled so far are no prefix of a program;        *)
(* ph = "acc": the whole input was a program.                              *)
(***************************************************************************)
GramInit ==
    [ph |-> "start", depth |-> 0, count |-> 0,
     declType |-> "None", names |-> <<>>, pending |-> "None",
     forStart |-> <<>>, forEnd |-> <<>>]
GramRejected == [GramInit EXCEPT !.ph = "rej"]

\* A token where a statement may start or the enclosing block may close.
GramDispatch(g, k) ==
    LET started == [g EXCEPT !.count = IF g.depth = 0 THEN @ + 1 ELSE @]
    IN  CASE k = "PRINT" -> [started EXCEPT !.ph = "print"]
          [] k \in {"INTEGER", "REAL", "STRING"} ->
               [started EXCEPT !.ph = "declId", !.pending = k]
          [] k = "ID" -> [started EXCEPT !.ph = "asg"]
          [] k = "FOR" -> [started EXCEPT !.ph = "forId"]
          [] k = "END" ->
               IF g.depth > 0 THEN [g EXCEPT !.ph = "stmts", !.depth = @ - 1]
               ELSE [g EXCEPT !.ph = "done"]
          [] OTHER -> GramRejected

GramTerm(k) == k \in {"ID", "INT", "FLOAT", "STRING_LITERAL"}

GramStep(g, t) ==
    LET k == t.type
        to(ph) == IF ph = "rej" THEN GramRejected ELSE [g EXCEPT !.ph = ph]
        expect(want, ph) == IF k = want THEN to(ph) ELSE to("rej")
    IN  CASE g.ph \in {"rej", "acc"} -> g
          [] t = None -> IF g.ph = "done" THEN to("acc") ELSE to("rej")
          [] g.ph = "start" -> expect("BEGIN", "stmts")
          [] g.ph = "stmts" -> GramDispatch(g, k)
          [] g.ph = "print" -> expect("STRING_LITERAL", "stmts")
          [] g.ph = "declId" ->
               IF k = "ID"
               THEN [g EXCEPT !.ph = "declMore", !.declType = g.pending,
                              !.names = <<t.value>>, !.pending = "None"]
               ELSE to("rej")
          [] g.ph = "declNext" ->
               IF k = "ID"
               THEN [g EXCEPT !.ph = "declMore", !.names = Append(@, t.value)]
               ELSE to("rej")
          [] g.ph = "declMore" ->
               IF k = "COMMA" THEN to("declNext") ELSE GramDispatch(g, k)
          [] g.ph = "asg" -> expect("ASSIGN", "termA")
          [] g.ph = "termA" -> IF GramTerm(k) THEN to("afterA") ELSE to("rej")
          [] g.ph = "afterA" ->
               IF k = "OPERATOR" THEN to("termA") ELSE GramDispatch(g, k)
          [] g.ph = "forId" ->
               IF k # "ID" THEN to("rej")
               ELSE IF g.depth > 0 THEN to("forAsg")
               ELSE [g EXCEPT !.ph = "forAsg", !.forStart = <<>>, !.forEnd = <<>>]
          [] g.ph = "forAsg" -> expect("ASSIGN", "term1")
          [] g.ph = "term1" ->
               IF ~GramTerm(k) THEN to("rej")
               ELSE IF g.depth = 0 /\ g.forStart = <<>>
               THEN [g EXCEPT !.ph = "after1", !.forStart = t.value]
               ELSE to("after1")
          [] g.ph = "after1" ->
               IF k = "OPERATOR" THEN to("term1") ELSE expect("TO", "term2")
          [] g.ph = "term2" ->
               IF ~GramTerm(k) THEN to("rej")
               ELSE IF g.depth = 0 /\ g.forEnd = <<>>
               THEN [g EXCEPT !.ph = "after2", !.depth = @ + 1, !.forEnd = t.value]
               ELSE [g EXCEPT !.ph = "after2", !.depth = @ + 1]
          [] g.ph = "after2" ->
               IF k = "OPERATOR" THEN [g EXCEPT !.ph = "term2", !.depth = @ - 1]
               ELSE GramDispatch(g, k)
          [] g.ph = "done" -> to("rej")
          [] OTHER -> to("rej")

\* The tokens so far are BEGIN and whole statements: no statement and no FOR
\* loop is open.
GramBoundary(g) == g.depth = 0 /\ g.ph \in {"stmts", "declMore", "afterA"}

(***************************************************************************)
(* Observations                                                            *)
(*   gram        the recognizer above, fed with every token pulled         *)
(*   mismatched  consume() met a wrong token in Normal mode                *)
(*   listMismatch  it did so while a statement of a statement list was     *)
(*               being parsed                                              *)
(*   discarded   a token was passed over other than by a matching consume  *)
(*   openEnded   the input ended after BEGIN and whole statements, with    *)
(*               the closing END missing                                   *)
(*   chain, chainText   how much of  t1 op t2 op t3  the input has shown   *)
(*               from the token the latest expression() started at         *)
(*   dangling    from that token the input reads  t1 op  and then a token  *)
(*               that starts no term                                       *)
(*   exprRet     what the latest expression() returned, how many tokens it *)
(*               consumed and the mode it returned in                      *)
(*   skippedPrint  after such a mismatch, the previous step was a skip     *)
(*               loop dropping a PRINT token                               *)
(*   stmtLost    a skip loop dropped PRINT StringLiteral after a mismatch  *)
(*   resync      how the consume() that moved the cursor last, if called   *)
(*               in Panic mode, ended: "found", "exhausted" (input ran out *)
(*               while skipping) or "stayed" (input had run out before);   *)
(*               "tolerated" once consume('END') has returned in Normal    *)
(*               mode at the end of input                                  *)
(*   endLost     consume('STRING_LITERAL') met, in Normal mode, an END     *)
(*               that was the last token of the input                      *)
(***************************************************************************)
NoExpr ==
    [valid |-> FALSE, consumed |-> 0, type |-> "None", value |-> NoValue,
     panic |-> FALSE]

ObsInit ==
    [gram |-> GramInit, mismatched |-> FALSE, listMismatch |-> FALSE,
     discarded |-> FALSE, openEnded |-> FALSE,
     chain |-> 0, chainText |-> <<>>, dangling |-> FALSE, exprRet |-> NoExpr,
     skippedPrint |-> FALSE, stmtLost |-> FALSE, resync |-> "none",
     endLost |-> FALSE]

\* A statement of some statement list is being parsed.
InStatementList == \E i \in 1..Len(stack) : stack[i].proc = "statement"

ChainLen == Len(<<"t1", "op1", "t2", "op2", "t3">>)
\* The k-th token of  t1 op t2 op t3  is a term for odd k, an operator for even k.
ChainFits(k, t) ==
    t # None /\ IF k % 2 = 1 THEN t.type \in {"ID", "INT", "FLOAT", "STRING_LITERAL"}
                ELSE t.type = "OPERATOR"

\* The observations after the cursor moved from cur to t; how is "match",
\* "found" (a match that ends Panic mode), "mismatch" (Normal-mode mismatch),
\* "skip" (a skip loop of consume or program) or "resync" (a skip loop of
\* statement or for_loop).
Observe(t, how) ==
    LET grow == obs.chain \in 1..(ChainLen - 1) /\ ChainFits(obs.chain + 1, t)
    IN  [obs EXCEPT
          !.gram = GramStep(obs.gram, t),
          !.mismatched = @ \/ how = "mismatch",
          !.listMismatch = @ \/ (how = "mismatch" /\ InStatementList),
          !.discarded = @ \/ how \notin {"match", "found"},
          !.openEnded = t = None /\ GramBoundary(obs.gram),
          !.resync = IF how = "found" THEN "found" ELSE "none",
          !.dangling = @ \/ (obs.chain = 2 /\ t # None /\ ~ChainFits(1, t)),
          !.chain = IF grow THEN @ + 1 ELSE IF @ = ChainLen THEN @ ELSE 0,
          !.chainText = IF grow THEN Append(@, t.value)
                        ELSE IF obs.chain = ChainLen THEN @ ELSE <<>>,
          !.skippedPrint = how = "skip" /\ obs.listMismatch /\ cur.type = "PRINT",
          !.stmtLost = @ \/ (how = "skip" /\ obs.skippedPrint
                             /\ cur.type = "STRING_LITERAL"),
          !.endLost = @ \/ (how = "mismatch" /\ cur.type = "END" /\ t = None
                            /\ Top.arg = "STRING_LITERAL")]

(***************************************************************************)
(* The lexer as seen by the parser: next(self.lexer, None)                 *)
(***************************************************************************)
\* What the generator may yield now: nothing more once it is exhausted.
NextTokens ==
    IF pos > 0 /\ ~Present THEN {None}
    ELSE {None} \cup (IF pos < MaxTokens THEN Tokens ELSE {})

\* The observations when next() is called on the exhausted generator; how is
\* "exhausted" when consume gives up in Panic mode (line 84).
ObserveEnd(how) ==
    [obs EXCEPT !.resync = IF how # "exhausted" THEN "none"
                           ELSE IF pos = Top.p0 THEN "stayed" ELSE "exhausted"]

\* self.current_token = next(self.lexer, None)
Pull(t, how) ==
    /\ t \in NextTokens
    /\ cur' = t
    /\ pos' = IF Present THEN pos + 1 ELSE pos
    /\ obs' = IF Present THEN Observe(t, how) ELSE ObserveEnd(how)

\* A skip loop that tests the current token and never replaces it.
PullNotInSkipLoop(t, how) ==
    IF how = "skip" THEN t = cur /\ UNCHANGED <<cur, pos, obs>> ELSE Pull(t, how)

\* A resynchronization that leaves the token it found for the caller.
PullLeavesFound(t, how) ==
    IF how = "found" THEN t = cur /\ UNCHANGED <<cur, pos, obs>> ELSE Pull(t, how)

\* A mismatch that leaves in place a token at which statements resynchronize.
PullKeepsSyncPoint(t, how) ==
    IF how = "mismatch" /\ cur.type \in StatementSync
    THEN t = cur /\ UNCHANGED <<cur, pos, obs>>
    ELSE Pull(t, how)

\* A mismatch that reports the token and leaves it in place.
PullLeavesMismatched(t, how) ==
    IF how = "mismatch" THEN t = cur /\ UNCHANGED <<cur, pos, obs>>
    ELSE Pull(t, how)

Advance(t, how) == Pull(t, how)

(***************************************************************************)
(* Calls, returns and exceptions                                           *)
(***************************************************************************)
Still == UNCHANGED <<cur, pos, obs>>
Quiet == UNCHANGED <<panic_mode, diags, outcome, raiser, result>>

\* Continue in frame f, which replaces the top frame.
Continue(f) == stack' = Rest \o <<f>> /\ UNCHANGED ret
Goto(pc) == Continue([Top EXCEPT !.pc = pc])
\* Call proc(arg) from frame f, which replaces the top frame.
CallFrom(f, proc, arg) == stack' = Rest \o <<f, Frame(proc, arg)>> /\ UNCHANGED ret
Call(retpc, proc, arg) == CallFrom([Top EXCEPT !.pc = retpc], proc, arg)
Return(v) == stack' = Rest /\ ret' = v
\* An exception nothing catches: it leaves parse().
Raise(exception, by) ==
    /\ outcome' = exception
    /\ raiser' = by
    /\ UNCHANGED <<cur, pos, obs, panic_mode, stack, ret, result, diags>>

(***************************************************************************)
(* Parser.consume                                                          *)
(***************************************************************************)
\* An end of input that is an error whatever was expected.
ConsumeAtEndRaisesAlways(expected_type) == TRUE

\* An end of input that is never an error.
ConsumeAtEndRaisesNever(expected_type) == FALSE

\* Lines 90-94: what consume does in Normal mode when the input is exhausted.
ConsumeAtEndRaises(expected_type) == expected_type # "END"

\* A resynchronization that always goes back to Normal mode.
ResyncModeReset(found) == FALSE

\* Lines 79-84: panic_mode after the skip loop of a call made in Panic mode.
ResyncMode(found) == IF found THEN FALSE ELSE panic_mode

consume ==
    /\ Running("consume")
    /\ UNCHANGED lexvars
    /\ LET expected_type == Top.arg IN
       IF panic_mode THEN
           \* lines 74-76: skip tokens until a synchronization point is found
           IF Present /\ cur.type # expected_type THEN
               /\ \E t \in NextTokens : Advance(t, "skip")
               /\ Goto("skip")
               /\ Quiet
           \* lines 79-81: synchronization point found, reset panic mode
           ELSE IF Present /\ cur.type = expected_type THEN
               /\ panic_mode' = ResyncMode(TRUE)
               /\ \E t \in NextTokens : Advance(t, "found")
               /\ Return(None)
               /\ UNCHANGED <<diags, outcome, raiser, result>>
           \* line 84: not found
           ELSE
               /\ panic_mode' = ResyncMode(FALSE)
               /\ \E t \in NextTokens : Advance(t, "exhausted")
               /\ Return(None)
               /\ UNCHANGED <<diags, outcome, raiser, result>>
       ELSE
           \* lines 86-88
           IF Present /\ cur.type = expected_type THEN
               /\ \E t \in NextTokens : Advance(t, "match")
               /\ Return(None)
               /\ Quiet
           \* lines 90-94
           ELSE IF ~Present THEN
               IF ConsumeAtEndRaises(expected_type)
               THEN Raise("SyntaxError", "consume")
               ELSE /\ Return(None)
                    /\ obs' = [obs EXCEPT !.resync = "tolerated"]
                    /\ UNCHANGED <<cur, pos>>
                    /\ Quiet
           \* lines 96-99
           ELSE
               /\ panic_mode' = TRUE
               /\ \E t \in NextTokens : Advance(t, "mismatch")
               /\ Return(None)
               /\ UNCHANGED <<diags, outcome, raiser, result>>

(***************************************************************************)
(* Parser.program                                                          *)
(***************************************************************************)
\* A Program node the Statements node was never added to.
ProgramNodeEmpty(statements_node) == Node("Program", <<>>, NoValue)

\* Lines 102, 120-121: the node program() returns.
ProgramNode(statements_node) == Node("Program", <<statements_node>>, NoValue)

\* Lines 106-118, with statements_node held in frame f.
ProgramClose(f) ==
    IF Present /\ cur.type \notin ProgramSync THEN
        /\ \E t \in NextTokens : Advance(t, "skip")
        /\ Continue([f EXCEPT !.pc = "skip"])
        /\ Quiet
    ELSE IF Present /\ cur.type = "END" THEN
        /\ CallFrom([f EXCEPT !.pc = "ret"], "consume", "END")
        /\ Still /\ Quiet
    ELSE
        /\ diags' = diags \cup {"MissingEnd"}
                          \cup (IF Present /\ cur.type = "BEGIN"
                                THEN {"NestedBegin"} ELSE {})
        /\ Continue([f EXCEPT !.pc = "ret"])
        /\ Still
        /\ UNCHANGED <<panic_mode, outcome, raiser, result>>

program ==
    /\ Running("program")
    /\ UNCHANGED lexvars
    /\ CASE Top.pc = "entry" ->
              Call("statements", "consume", "BEGIN") /\ Still /\ Quiet
         [] Top.pc = "statements" ->
              Call("close", "statement_list", None) /\ Still /\ Quiet
         [] Top.pc = "close" -> ProgramClose([Top EXCEPT !.sv = ret])
         [] Top.pc = "skip" -> ProgramClose(Top)
         [] Top.pc = "ret" -> Return(ProgramNode(Top.sv)) /\ Still /\ Quiet

(***************************************************************************)
(* Parser.statement_list                                                   *)
(***************************************************************************)
\* A loop condition that does not look at the mode.
StatementListGuardAnyMode == Present /\ cur.type \in StatementStart

\* A loop condition that does not look at the kind of the current token.
StatementListGuardAnyToken == Present /\ ~panic_mode

\* Line 126: the loop condition.
StatementListGuard ==
    Present /\ ~panic_mode /\ cur.type \in StatementStart

\* Lines 126-129, with statements_node's children held in frame f.
StatementListLoop(f) ==
    IF StatementListGuard
    THEN CallFrom([f EXCEPT !.pc = "add"], "statement", None)
    ELSE Return(Node("Statements", f.kids, NoValue))

statement_list ==
    /\ Running("statement_list")
    /\ UNCHANGED lexvars
    /\ Still /\ Quiet
    /\ CASE Top.pc = "entry" -> StatementListLoop(Top)
         [] Top.pc = "add" ->
              StatementListLoop([Top EXCEPT !.kids = Append(@, ret)])

(***************************************************************************)
(* Parser.statement                                                        *)
(***************************************************************************)
\* Line 151: the node labelled with the loop bounds; start and end_ are the
\* two texts formatted into the label (<<>> for None).
ForStatementNode(for_loop_node, start, end_) ==
    [type |-> "START_END", children |-> <<Summary(for_loop_node)>>,
     value |-> NoValue, start |-> start, end_ |-> end_]

statement ==
    /\ Running("statement")
    /\ UNCHANGED lexvars
    /\ CASE Top.pc = "entry" ->
              \* lines 132-136
              IF panic_mode THEN Goto("skip") /\ Still /\ Quiet
              ELSE IF ~Present THEN Raise("AttributeError", "statement")
              ELSE IF cur.type = "PRINT" THEN
                  Call("print", "consume", "PRINT") /\ Still /\ Quiet
              ELSE IF cur.type \in TypeKeywords THEN
                  Call("decl", "var_declaration", None) /\ Still /\ Quiet
              ELSE IF cur.type = "ID" THEN
                  Call("assign", "assignment", None) /\ Still /\ Quiet
              ELSE IF cur.type = "FOR" THEN
                  Call("for", "for_loop", None) /\ Still /\ Quiet
              ELSE Raise("SyntaxError", "statement")
         [] Top.pc = "skip" ->
              IF Present /\ cur.type \notin StatementSync THEN
                  /\ \E t \in NextTokens : Advance(t, "resync")
                  /\ Goto("skip")
                  /\ Quiet
              ELSE Return(Node("ErrorRecoveryStatement", <<>>, NoValue))
                   /\ Still /\ Quiet
         [] Top.pc = "print" ->
              \* line 140: the current token may be None here
              /\ CallFrom([Top EXCEPT
                     !.pc = "printed",
                     !.sv = Node("StringLiteral",
                                 <<Node("Value", <<cur>>, NoValue)>>, NoValue)],
                   "consume", "STRING_LITERAL")
              /\ Still /\ Quiet
         [] Top.pc = "printed" ->
              Return(Node("PrintStatement", <<Top.sv>>, NoValue)) /\ Still /\ Quiet
         [] Top.pc = "decl" ->
              Return(Node("VarDeclaration", <<ret>>, NoValue)) /\ Still /\ Quiet
         [] Top.pc = "assign" ->
              Return(Node("Assignment", <<ret>>, NoValue)) /\ Still /\ Quiet
         [] Top.pc = "for" ->
              Return(ForStatementNode(ret.node, ret.start, ret.end_))
              /\ Still /\ Quiet

(***************************************************************************)
(* Parser.var_declaration                                                  *)
(***************************************************************************)
\* A leaf tagged with the kind of the name token.
DeclaredLeafOfTokenKind(var_type, token) == Node(token.type, <<>>, token.value)

\* Lines 163 and 169: the leaf for one declared name.  The leaf takes the text
\* of the current token whatever its kind; the text of a token that is no
\* identifier (consume('ID') then reports it) is kept as NotAName.
NotAName == <<"?">>
DeclaredLeaf(var_type, token) ==
    Node(var_type, <<>>, IF token.type = "ID" THEN token.value ELSE NotAName)

var_declaration ==
    /\ Running("var_declaration")
    /\ UNCHANGED lexvars
    /\ CASE Top.pc = "entry" ->
              \* lines 159-160
              IF ~Present THEN Raise("AttributeError", "var_declaration")
              ELSE CallFrom([Top EXCEPT !.pc = "first", !.arg = cur.type],
                            "consume", cur.type) /\ Still /\ Quiet
         [] Top.pc \in {"first", "name"} ->
              \* lines 163-165 and 169-170
              IF ~Present THEN Raise("AttributeError", "var_declaration")
              ELSE CallFrom([Top EXCEPT
                              !.pc = "loop",
                              !.kids = Append(@, DeclaredLeaf(Top.arg, cur))],
                            "consume", "ID") /\ Still /\ Quiet
         [] Top.pc = "loop" ->
              \* lines 167-168, 172
              IF ~Present THEN Raise("AttributeError", "var_declaration")
              ELSE IF cur.type = "COMMA" THEN
                  Call("name", "consume", "COMMA") /\ Still /\ Quiet
              ELSE Return(Node("VarDeclaration", Top.kids, NoValue))
                   /\ Still /\ Quiet

(***************************************************************************)
(* Parser.assignment                                                       *)
(***************************************************************************)
\* Lines 190-191: variable_node is built at line 178 from the same token.
AssignmentNode(variable_token, expression_node) ==
    Node("Assignment",
         <<Node("Variable", <<>>, variable_token.value), expression_node,
           Node("Value", <<variable_token>>, NoValue)>>,
         NoValue)

\* Lines 177-180 and 194, with assignment_nodes held in frame f.
AssignmentLoop(f) ==
    IF Present /\ ~panic_mode /\ cur.type = "ID"
    THEN CallFrom([f EXCEPT !.pc = "named", !.sv = cur], "consume", "ID")
    ELSE Return(Node("Assignments", f.kids, NoValue))

assignment ==
    /\ Running("assignment")
    /\ UNCHANGED lexvars
    /\ CASE Top.pc = "entry" -> AssignmentLoop(Top) /\ Still /\ Quiet
         [] Top.pc = "named" ->
              \* lines 182-188
              IF ~Present THEN Raise("AttributeError", "assignment")
              ELSE IF cur.type = "ASSIGN" THEN
                  Call("assigned", "consume", "ASSIGN") /\ Still /\ Quiet
              ELSE AssignmentLoop(
                       [Top EXCEPT !.kids = Append(@, AssignmentNode(Top.sv, None))])
                   /\ Still /\ Quiet
         [] Top.pc = "assigned" ->
              Call("valued", "expression", None) /\ Still /\ Quiet
         [] Top.pc = "valued" ->
              AssignmentLoop(
                  [Top EXCEPT !.kids = Append(@, AssignmentNode(Top.sv, ret))])
              /\ Still /\ Quiet

(***************************************************************************)
(* Parser.for_loop                                                         *)
(***************************************************************************)
\* What for_loop returns: a node and the two bound texts (<<>> for None).
ForResult(node, start, end_) == [node |-> node, start |-> start, end_ |-> end_]

for_loop ==
    /\ Running("for_loop")
    /\ UNCHANGED lexvars
    /\ CASE Top.pc = "entry" -> Call("header", "consume", "FOR") /\ Still /\ Quiet
         [] Top.pc = "header" ->
              \* lines 200-209 and 219-223
              IF panic_mode THEN Goto("skip") /\ Still /\ Quiet
              ELSE IF ~Present THEN Raise("AttributeError", "for_loop")
              ELSE IF cur.type = "ID" THEN
                  CallFrom([Top EXCEPT !.pc = "named", !.sv = cur],
                           "consume", "ID") /\ Still /\ Quiet
              ELSE Goto("skip") /\ Still /\ Quiet
         [] Top.pc = "skip" ->
              IF Present /\ cur.type \notin ForLoopSync THEN
                  /\ \E t \in NextTokens : Advance(t, "resync")
                  /\ Goto("skip")
                  /\ Quiet
              ELSE Return(ForResult(Node("ErrorRecoveryForLoop", <<>>, NoValue),
                                    NoValue, NoValue))
                   /\ Still /\ Quiet
         [] Top.pc = "named" -> Call("assigned", "consume", "ASSIGN") /\ Still /\ Quiet
         [] Top.pc = "assigned" -> Call("from", "expression", None) /\ Still /\ Quiet
         [] Top.pc = "from" -> Call("to", "consume", "TO") /\ Still /\ Quiet
         [] Top.pc = "to" ->
              \* lines 213-215
              IF ~Present THEN Raise("AttributeError", "for_loop")
              ELSE CallFrom([Top EXCEPT !.pc = "bounds", !.sv2 = cur],
                            "expression", None) /\ Still /\ Quiet
         [] Top.pc = "bounds" -> Call("body", "statement_list", None) /\ Still /\ Quiet
         [] Top.pc = "body" ->
              CallFrom([Top EXCEPT !.pc = "closed", !.kids = <<ret>>],
                       "consume", "END") /\ Still /\ Quiet
         [] Top.pc = "closed" ->
              Return(ForResult(Node("ForLoop", Top.kids, NoValue),
                               Top.sv.value, Top.sv2.value))
              /\ Still /\ Quiet

(***************************************************************************)
(* Parser.expression and Parser.term                                       *)
(***************************************************************************)
\* Line 227: the loop condition.
ExpressionGuard ==
    Present /\ ~panic_mode /\ cur.type \in ExpressionOperators

\* What the observations keep of the node expression() returns.
Returned(f, node) ==
    [valid |-> TRUE, consumed |-> pos - f.p0, type |-> node.type,
     value |-> node.value, panic |-> panic_mode]

\* Lines 227-229 and 238, with left_term held in frame f.
ExpressionLoop(f) ==
    IF ExpressionGuard THEN
        /\ CallFrom([f EXCEPT !.pc = "operator", !.sv2 = cur], "consume", "OPERATOR")
        /\ Still
    ELSE
        /\ Return(f.sv)
        /\ obs' = [obs EXCEPT !.exprRet = Returned(f, f.sv)]
        /\ UNCHANGED <<cur, pos>>

expression ==
    /\ Running("expression")
    /\ UNCHANGED lexvars
    /\ CASE Top.pc = "entry" ->
              /\ Call("left", "term", None)
              /\ obs' = [obs EXCEPT
                           !.chain = IF ChainFits(1, cur) THEN 1 ELSE 0,
                           !.chainText = IF ChainFits(1, cur) THEN <<cur.value>>
                                         ELSE <<>>,
                           !.dangling = FALSE,
                           !.exprRet = NoExpr]
              /\ UNCHANGED <<cur, pos>>
              /\ Quiet
         [] Top.pc = "left" -> ExpressionLoop([Top EXCEPT !.sv = ret]) /\ Quiet
         [] Top.pc = "operator" ->
              \* lines 231-236
              IF ~Present THEN Raise("AttributeError", "expression")
              ELSE IF cur.type \notin TermStart THEN
                  /\ panic_mode' = TRUE
                  /\ Return(Node("ErrorRecoveryExpression", <<>>, NoValue))
                  /\ obs' = [obs EXCEPT !.exprRet =
                               [Returned(Top, Node("ErrorRecoveryExpression",
                                                   <<>>, NoValue))
                                EXCEPT !.panic = TRUE]]
                  /\ UNCHANGED <<cur, pos, diags, outcome, raiser, result>>
              ELSE Call("right", "term", None) /\ Still /\ Quiet
         [] Top.pc = "right" ->
              \* line 237: Token() is called without line_number and column
              Raise("TypeError", "expression")

\* A term that also starts at the keyword closing a block.
TermStartsAtEnd(token) == token.type \in TermStart \cup {"END"}

\* Line 241: the test of the current token.
TermStarts(token) == token.type \in TermStart

term ==
    /\ Running("term")
    /\ UNCHANGED lexvars
    /\ CASE Top.pc = "entry" ->
              \* lines 241-246
              IF ~Present THEN Raise("AttributeError", "term")
              ELSE IF TermStarts(cur) THEN
                  CallFrom([Top EXCEPT !.pc = "consumed", !.sv = cur],
                           "consume", cur.type) /\ Still /\ Quiet
              ELSE Raise("SyntaxError", "term")
         [] Top.pc = "consumed" ->
              Return(Node("Value", <<Top.sv>>, NoValue)) /\ Still /\ Quiet

(***************************************************************************)
(* Parser.parse                                                            *)
(***************************************************************************)
parse ==
    /\ Running("parse")
    /\ UNCHANGED lexvars
    /\ CASE Top.pc = "entry" ->
              \* line 282: next(self.lexer) has no default
              \E t \in NextTokens :
                  IF t = None THEN
                      /\ outcome' = "StopIteration"
                      /\ raiser' = "parse"
                      /\ obs' = [obs EXCEPT !.gram = GramStep(@, t)]
                      /\ UNCHANGED <<cur, pos, panic_mode, stack, ret, result, diags>>
                  ELSE /\ cur' = t
                       /\ pos' = 1
                       /\ obs' = [obs EXCEPT !.gram = GramStep(@, t)]
                       /\ Call("ret", "program", None)
                       /\ Quiet
         [] Top.pc = "ret" ->
              /\ outcome' = "returned"
              /\ result' = ret
              /\ stack' = <<>>
              /\ UNCHANGED <<cur, pos, obs, panic_mode, ret, raiser, diags>>

(***************************************************************************)
(* The parser                                                              *)
(***************************************************************************)
\* Parser.__init__ (lines 61-64), then the call parser.parse().
ParserInit ==
    /\ cur = None
    /\ pos = 0
    /\ panic_mode = FALSE
    /\ stack = <<[proc |-> "parse", pc |-> "entry", arg |-> None, kids |-> <<>>,
                  sv |-> None, sv2 |-> None, p0 |-> 0, m0 |-> FALSE,
                  h0 |-> FALSE]>>
    /\ ret = None
    /\ outcome = "running"
    /\ raiser = "None"
    /\ result = None
    /\ diags = {}
    /\ obs = ObsInit

\* The parser is given a lexer that has not started.
Init == ParserInit /\ LexerInit(<<>>)

Next ==
    \/ parse
    \/ program
    \/ statement_list
    \/ statement
    \/ var_declaration
    \/ assignment
    \/ for_loop
    \/ expression
    \/ term
    \/ consume

Spec == Init /\ [][Next]_vars

\* The interpreter runs the call to completion.
FairSpec == Spec /\ WF_vars(Next)

(***************************************************************************)
(* The lexer run on its own: for token in lexer(input_code)                *)
(***************************************************************************)
InputTexts == UNION {[1..n -> Alphabet] : n \in 0..MaxChars}

LexInit == ParserInit /\ \E text \in InputTexts : LexerInit(text)

LexNext == lexer

LexSpec == LexInit /\ [][LexNext]_vars

(***************************************************************************)
(* Properties                                                              *)
(***************************************************************************)
Ended == outcome # "running"
Aborted == outcome \notin {"running", "returned"}

\* The step by which a call of consume returns to its caller.
ConsumeReturns ==
    Running("consume") /\ outcome' = "running" /\ Len(stack') < Len(stack)

\* C1: for every finite token sequence parse() terminates, by returning a node
\* or by aborting with an error: no loop and no recursion of the parser goes
\* on without moving the cursor.
C1_Terminates == <>Ended

\* parse() has ended after a mismatch and after tokens were skipped.
C1_Witness == outcome = "returned" /\ obs.mismatched /\ obs.discarded /\ pos > 2

\* C2: whenever parse() returns a node, after a clean parse or after recovery,
\* the root is a Program with exactly one child, and the child is a Statements
\* node.
C2_ProgramShape ==
    outcome = "returned" =>
        /\ result.type = "Program"
        /\ Len(result.children) = 1
        /\ result.children[1].type = "Statements"

\* parse() has returned a node after panic-mode recovery.
C2_Witness == outcome = "returned" /\ obs.mismatched /\ result.type = "Program"

\* The text f'{l} {op} {r}' folded from the left over t1 op1 t2 op2 t3.
RECURSIVE FoldText(_)
FoldText(texts) ==
    IF Len(texts) <= 1 THEN (IF texts = <<>> THEN <<>> ELSE texts[1])
    ELSE FoldText(SubSeq(texts, 1, Len(texts) - 1)) \o <<" ">> \o texts[Len(texts)]

\* C3: when the input, from the token expression() starts at, reads
\* t1 op1 t2 op2 t3, expression() consumes the five tokens and returns one
\* leaf of kind ID whose value is the text "t1 op1 t2 op2 t3".
C3_LeftFold ==
    obs.chain = ChainLen =>
        /\ obs.exprRet.valid
        /\ obs.exprRet.consumed = ChainLen
        /\ obs.exprRet.type = "ID"
        /\ obs.exprRet.value = FoldText(obs.chainText)

\* C4: as long as the tokens pulled are a prefix of a program of the grammar,
\* the mode is Normal, no token was passed over other than by a consume that
\* matched it and parse() has not aborted; and when the whole input was a
\* program, parse() returns a Program.
C4_GrammarParsesClean ==
    /\ obs.gram.ph # "rej" =>
           ~panic_mode /\ ~obs.discarded /\ ~Aborted
    /\ (obs.gram.ph = "acc" /\ Ended) =>
           outcome = "returned" /\ result.type = "Program"

\* C5: after a recoverable mismatch in a statement list, a well-formed
\* statement that follows is parsed, and never dropped by a skip loop.
C5_RecoveryResumes == ~obs.stmtLost

\* C6: once consume has met a wrong token in Normal mode, parse() does not
\* abort, whatever follows.
C6_MismatchContained == obs.mismatched => ~Aborted

\* term() is about to test a token that is present and starts no term.
TermMalformed ==
    /\ Running("term")
    /\ Top.pc = "entry"
    /\ Present
    /\ cur.type \notin {"ID", "INT", "FLOAT", "STRING_LITERAL"}

\* C7: term() entered on a token that starts no term aborts parse() with a
\* syntax error, in Normal and in Panic mode alike: the token is not skipped,
\* the mode does not change, and no node is returned.
C7_TermFatal ==
    [][TermMalformed =>
         /\ outcome' = "SyntaxError"
         /\ raiser' = "term"
         /\ cur' = cur /\ pos' = pos /\ panic_mode' = panic_mode
         /\ result' = None]_vars

\* term() has aborted the parse in Panic mode.
C7_Witness == outcome = "SyntaxError" /\ raiser = "term" /\ panic_mode

\* C8 as stated: no call of consume aborts the parse.
C8_ConsumeNeverAborts == [][Running("consume") => outcome' = "running"]_vars

\* C8, amended: consume aborts the parse exactly when it is called in Normal
\* mode with the input exhausted and an expected kind other than END, and then
\* with a syntax error; with a token present a mismatch sets Panic mode.
C8_ConsumeAbortsOnlyAtEnd ==
    [][Running("consume") =>
         /\ outcome' # "running" <=> (~panic_mode /\ ~Present /\ Top.arg # "END")
         /\ outcome' # "running" => outcome' = "SyntaxError" /\ raiser' = "consume"
         /\ (~panic_mode /\ Present /\ cur.type # Top.arg) =>
                panic_mode' /\ pos' = pos + 1]_vars

\* consume has aborted the parse at the end of the input.
C8_Witness == outcome = "SyntaxError" /\ raiser = "consume" /\ ~Present

\* C9 as stated: a call of consume made in Panic mode ends in Normal mode.
C9_ResyncEndsNormal == [][ConsumeReturns /\ Top.m0 => ~panic_mode']_vars

\* C9, amended: a call of consume made in Panic mode ends in Normal mode when
\* a token of the expected kind is found, which is consumed; when the input is
\* exhausted first, it ends with the mode still Panic, at the end of input.
C9_ResyncEndsNormalIfFound ==
    [][ConsumeReturns /\ Top.m0 =>
         IF Present
         THEN cur.type = Top.arg /\ ~panic_mode' /\ pos' = pos + 1
         ELSE panic_mode' /\ cur' = None /\ pos' = pos]_vars

\* A call of consume made in Panic mode has returned without finding the
\* expected kind, the input being exhausted.
C9_Witness == obs.resync \in {"exhausted", "stayed"} /\ panic_mode /\ ~Present

\* C10 as stated: a call of consume made in Panic mode leaves the cursor
\* beyond where it was.
C10_ResyncAdvances == [][ConsumeReturns /\ Top.m0 => pos' > Top.p0]_vars

\* C10, amended: a call of consume made in Panic mode with a token present
\* leaves the cursor beyond where it was; made at the end of input, it leaves
\* the cursor where it was.
C10_ResyncAdvancesIfPresent ==
    [][ConsumeReturns /\ Top.m0 =>
         IF Top.h0 THEN pos' > Top.p0 ELSE pos' = Top.p0]_vars

\* A call of consume made in Panic mode at the end of input has returned.
C10_Witness == obs.resync = "stayed" /\ ~Present

\* program() consumed the END that closes the program: it reports a missing
\* END in every other case.
ClosedByEnd == "MissingEnd" \notin diags

\* C11: when tokens remain after program() consumed the closing END, parse()
\* aborts and returns no Program.
C11_TrailingInputFatal == (outcome = "returned" /\ ClosedByEnd) => ~Present

\* C12: consume('END') called in Normal mode with the input exhausted returns
\* without error and leaves the mode, the cursor and the diagnostics as they
\* were; consume of any other kind in that state is a syntax error.  So
\* for_loop, calling consume('END') at the end of input, returns its ForLoop
\* node without a diagnostic.
C12_EndAtEndTolerated ==
    [][/\ (Running("consume") /\ ~panic_mode /\ ~Present) =>
              IF Top.arg = "END"
              THEN /\ outcome' = "running" /\ stack' = Rest
                   /\ panic_mode' = panic_mode /\ cur' = cur /\ pos' = pos
                   /\ diags' = diags
              ELSE outcome' = "SyntaxError" /\ raiser' = "consume"
       /\ (Running("for_loop") /\ Top.pc = "closed") =>
              /\ outcome' = "running" /\ stack' = Rest
              /\ ret'.node.type = "ForLoop"
              /\ diags' = diags /\ panic_mode' = panic_mode]_vars

\* A FOR loop whose END is missing at the end of input has returned its
\* ForLoop node in Normal mode.
C12_Witness ==
    /\ obs.resync = "tolerated"
    /\ Running("statement") /\ Top.pc = "for"
    /\ ret.node.type = "ForLoop"
    /\ ~panic_mode /\ ~Present

\* C13: when the input is BEGIN and well-formed statements with the closing
\* END missing, parse() does not abort and passes over no token; the node it
\* returns is a Program with its Statements child, and the missing END is
\* reported as a diagnostic.
C13_MissingEndReported ==
    obs.openEnded =>
        /\ ~Aborted
        /\ ~obs.discarded
        /\ outcome = "returned" =>
               /\ result.type = "Program"
               /\ Len(result.children) = 1
               /\ result.children[1].type = "Statements"
               /\ "MissingEnd" \in diags

\* C14: when the input, from the token expression() starts at, reads a term,
\* an operator and then a token that starts no term, expression() consumes
\* the term and the operator, sets Panic mode and returns an
\* ErrorRecoveryExpression leaf.
C14_DanglingOperator ==
    (obs.dangling /\ obs.exprRet.valid) =>
        /\ obs.exprRet.type = "ErrorRecoveryExpression"
        /\ obs.exprRet.consumed = 2
        /\ obs.exprRet.panic

\* C15: when the input is a program of the grammar, the Statements node of the
\* Program that parse() returns has as many children as the program's
\* statement list has statements, each PRINT, declaration, FOR loop and
\* assignment counting as one.
C15_StatementCount ==
    (outcome = "returned" /\ obs.gram.ph = "acc") =>
        result.children[1].arity = obs.gram.count

\* The leaves of a declaration of the names ns with the type keyword T, as a
\* node records its children.
DeclaredLeaves(T, ns) ==
    [i \in 1..Len(ns) |-> [type |-> T, value |-> ns[i], arity |-> 0]]

\* var_declaration has read a declaration  T n1, ..., nk  of the grammar and
\* the token that follows it.
DeclarationRead ==
    /\ Running("var_declaration") /\ Top.pc = "loop"
    /\ obs.gram.ph \notin {"rej", "declNext"}

C19_MismatchAdvances ==
    [][/\ (Running("consume") /\ ~panic_mode /\ Present /\ cur.type # Top.arg) =>
              /\ panic_mode' /\ pos' = pos + 1
              /\ outcome' = "running" /\ stack' = Rest
       /\ (~panic_mode /\ panic_mode') => pos' = pos + 1
       /\ pos' >= pos]_vars

\* consume has met a wrong token in Normal mode and returned, in Panic mode,
\* to var_declaration with the next token current.
C19_Witness ==
    /\ Running("var_declaration") /\ Top.pc = "loop"
    /\ obs.mismatched /\ panic_mode /\ Present

\* C20: once the mode is Panic, statement_list adds no further child: it
\* returns the Statements node with the children it has, the statement that
\* just returned being the last, to program or for_loop, and leaves the
\* cursor and the mode as they are.
C20_ListStopsInPanic ==
    [][(Running("statement_list") /\ panic_mode) =>
           /\ stack' = Rest /\ outcome' = "running"
           /\ stack'[Len(stack')].proc \in {"program", "for_loop"}
           /\ ret'.type = "Statements"
           /\ Len(ret'.children) =
                  Len(Top.kids) + (IF Top.pc = "add" THEN 1 ELSE 0)
           /\ (Top.pc = "add" => ret'.children[Len(ret'.children)] = Summary(ret))
           /\ cur' = cur /\ pos' = pos /\ panic_mode']_vars

\* A statement list has ended in Panic mode on a token that starts a
\* statement, after the statement that met the mismatch.
C20_Witness ==
    /\ Running("program") /\ Top.pc = "close"
    /\ panic_mode /\ obs.listMismatch
    /\ ret.type = "Statements" /\ Len(ret.children) >= 1
    /\ Present /\ cur.type \in StatementStart

KeywordNames ==
    {"BEGIN", "END", "PRINT", "FOR", "TO", "INTEGER", "REAL", "STRING"}

\* The keywords whose text stands in s from index i on, whatever follows it.
KeywordsAt(s, i) ==
    {k \in KeywordNames :
        /\ i + Len(Literal[k]) - 1 <= Len(s)
        /\ \A j \in 1..Len(Literal[k]) : s[i + j - 1] = Literal[k][j]}

\* C17: where the lexer scans next, if the text of a keyword stands there,
\* alone or as the beginning of a longer word, the lexer yields that keyword
\* token, made of the keyword's characters only; a token of kind ID is
\* yielded only from an index where no keyword's text stands.
C17_KeywordsWin ==
    [][/\ (~exhausted /\ KeywordsAt(input_code, scan + 1) # {}) =>
              /\ yielded'.type \in KeywordsAt(input_code, scan + 1)
              /\ yielded'.start = scan + 1
              /\ yielded'.value = Literal[yielded'.type]
              /\ scan' = scan + Len(yielded'.value)
       /\ (yielded' # yielded /\ yielded'.type = "ID") =>
              KeywordsAt(input_code, yielded'.start) = {}]_vars

\* A keyword token has been yielded from a longer word it begins; the lexer
\* has gone on.
C17_Witness ==
    /\ yielded.type \in KeywordNames
    /\ At(input_code, yielded.start + Len(yielded.value)) \in Letters \cup Digits
    /\ scan = yielded.start + Len(yielded.value) - 1

\* The indices before index i at which s has a newline.
NewlinesBefore(s, i) == {j \in 1..(i - 1) : s[j] = "\n"}

\* C18: each token yielded records the line and the column at which it
\* starts: the line is 1 + the number of newlines before it, the column its
\* offset in that line, from 1.
C18_PositionsTrue ==
    yielded # NoToken =>
        LET before == NewlinesBefore(input_code, yielded.start)
            last == IF before = {} THEN 0
                    ELSE CHOOSE j \in before : \A k \in before : k <= j
        IN  /\ yielded.line_number = 1 + Cardinality(before)
            /\ yielded.column = yielded.start - last

\* program() has its Statements node and is closing the program.
ProgramClosing == Running("program") /\ Top.pc \in {"close", "skip"}

\* The call that will run after this step, and the frame it was made from.
TopAfter == stack'[Len(stack')]
CallerOfTop == stack[Len(stack) - 1]

\* C21: once statement_list has returned to program(), program() skips one
\* token at a time while the cursor is on a token other than END and BEGIN;
\* on END it has consume take that token, after which the mode is Normal; on
\* BEGIN or at the end of input it consumes nothing and reports the missing
\* END; in each case it then returns the Program node holding the Statements
\* node.
C21_ProgramCloses ==
    [][/\ (ProgramClosing /\ Present /\ cur.type \notin {"END", "BEGIN"}) =>
              /\ pos' = pos + 1
              /\ TopAfter.proc = "program" /\ TopAfter.pc = "skip"
              /\ diags' = diags
       /\ (ProgramClosing /\ Present /\ cur.type = "END") =>
              /\ TopAfter.proc = "consume" /\ TopAfter.arg = "END"
              /\ cur' = cur /\ pos' = pos /\ diags' = diags
       /\ (ProgramClosing /\ (~Present \/ cur.type = "BEGIN")) =>
              /\ "MissingEnd" \in diags'
              /\ cur' = cur /\ pos' = pos
              /\ TopAfter.proc = "program" /\ TopAfter.pc = "ret"
       /\ (Running("consume") /\ CallerOfTop.proc = "program" /\ Top.arg = "END") =>
              /\ Present /\ cur.type = "END"
              /\ pos' = pos + 1 /\ ~panic_mode'
              /\ TopAfter.proc = "program" /\ TopAfter.pc = "ret"
       /\ (Running("program") /\ Top.pc = "ret") =>
              /\ stack' = Rest /\ outcome' = "running"
              /\ ret'.type = "Program"
              /\ ret'.children = <<Summary(Top.sv)>>
              /\ Top.sv.type = "Statements"
              /\ cur' = cur /\ pos' = pos
              /\ (ClosedByEnd => ~panic_mode)]_vars

\* program() has skipped tokens in Panic mode, found END, had it consumed and
\* returned its node.
C21_Witness ==
    /\ Running("parse") /\ Top.pc = "ret"
    /\ ret.type = "Program"
    /\ obs.mismatched /\ obs.discarded /\ obs.resync = "found"
    /\ ClosedByEnd /\ ~panic_mode

\* for_loop is at the token after FOR, or in its skip loop.
ForLoopHeader == Running("for_loop") /\ Top.pc = "header"
ForLoopSkipping == Running("for_loop") /\ Top.pc = "skip"

\* The statement node built around an ErrorRecoveryForLoop node.
IsForPlaceholder(node) ==
    /\ node.type = "START_END"
    /\ node.children[1].type = "ErrorRecoveryForLoop"
    /\ node.start = NoValue /\ node.end_ = NoValue

\* C22: when the token after FOR is present and no ID, for_loop skips one
\* token at a time until the cursor is on ID, on END or at the end of input,
\* with the mode Normal throughout; it leaves that token in place and returns
\* an ErrorRecoveryForLoop node with both bounds absent; the statement list
\* takes the node as a child and, when the token is an ID, parses the next
\* statement from it.
C22_ForLoopRecovers ==
    [][/\ (ForLoopHeader /\ Present /\ cur.type # "ID") =>
              /\ ~panic_mode /\ ~panic_mode'
              /\ cur' = cur /\ pos' = pos
              /\ TopAfter.proc = "for_loop" /\ TopAfter.pc = "skip"
       /\ (ForLoopSkipping /\ Present /\ cur.type \notin {"ID", "END"}) =>
              /\ ~panic_mode /\ ~panic_mode'
              /\ pos' = pos + 1
              /\ TopAfter.proc = "for_loop" /\ TopAfter.pc = "skip"
       /\ (ForLoopSkipping /\ (~Present \/ cur.type \in {"ID", "END"})) =>
              /\ ~panic_mode /\ ~panic_mode'
              /\ cur' = cur /\ pos' = pos
              /\ stack' = Rest /\ outcome' = "running"
              /\ ret'.node.type = "ErrorRecoveryForLoop"
              /\ ret'.node.children = <<>>
              /\ ret'.start = NoValue /\ ret'.end_ = NoValue
       /\ (Running("statement_list") /\ Top.pc = "add" /\ ret.type = "START_END"
           /\ ret.children[1].type = "ErrorRecoveryForLoop") =>
              /\ IsForPlaceholder(ret)
              /\ ~panic_mode
              /\ IF Present /\ cur.type = "ID"
                 THEN /\ TopAfter.proc = "statement"
                      /\ stack'[Len(stack') - 1].kids = Append(Top.kids, ret)
                 ELSE ~Present \/ cur.type = "END"]_vars

\* After a FOR that no ID follows, tokens were skipped up to an ID and the
\* statement list is about to go on from it.
C22_Witness ==
    /\ Running("statement_list") /\ Top.pc = "add"
    /\ ret.type = "START_END" /\ IsForPlaceholder(ret)
    /\ obs.discarded /\ ~obs.mismatched
    /\ Present /\ cur.type = "ID"

\* A FOR loop of the program's own statement list, read as a loop of the
\* grammar with every token matched by a consume, its END included, has been
\* returned by for_loop.
OuterLoopReturned ==
    /\ Running("statement") /\ Top.pc = "for"
    /\ \A i \in 1..Len(stack) : stack[i].proc # "for_loop"
    /\ ret.node.type = "ForLoop"
    /\ obs.gram.ph # "rej" /\ obs.gram.depth = 0
    /\ ~obs.mismatched /\ ~obs.discarded

\* C23: for a well-formed loop  FOR id := e1 TO e2 Statements END  the start
\* bound for_loop returns is the text of the first token of e1 and the end
\* bound the text of the first token of e2.
C23_LoopBounds ==
    OuterLoopReturned =>
        /\ ret.start = obs.gram.forStart
        /\ ret.end_ = obs.gram.forEnd

(***************************************************************************)
(* Assignments whose ASSIGN is missing                                     *)
(***************************************************************************)
\* assignment() has taken an identifier and the token after it is present and
\* is no ASSIGN, on a run in which every token so far was matched by a consume.
BareName ==
    /\ Running("assignment") /\ Top.pc = "named"
    /\ Present /\ cur.type # "ASSIGN"
    /\ ~obs.mismatched /\ ~obs.discarded

\* C24: an identifier at the start of a statement that is not followed by
\* ASSIGN is reported as a mismatch by the step that reads the token after it,
\* so that no Assignment node is built without an expression child on a run
\* that reports no mismatch.
C24_BareNameReported == [][BareName => obs'.mismatched]_vars

(***************************************************************************)
(* The ways out of parse()                                                 *)
(***************************************************************************)
\* The methods whose raise statements report a syntax error: consume (line
\* 94), statement (line 155) and term (line 246).
SyntaxErrorRaisers == {"consume", "statement", "term"}

\* C25: every exception that leaves parse() is a SyntaxError raised by
\* consume, statement or term: no production reads the kind or the text of an
\* absent current token, and an empty token sequence is reported the same way.
C25_AbortsAreSyntaxErrors ==
    Aborted => outcome = "SyntaxError" /\ raiser \in SyntaxErrorRaisers

(***************************************************************************)
(* The recovery branches that are never taken                              *)
(***************************************************************************)
\* The nodes collected so far by the frames on the stack.
NodesInHand ==
    UNION {{stack[i].kids[j] : j \in 1..Len(stack[i].kids)} : i \in 1..Len(stack)}

\* The node handed back by the last return (for_loop hands back a node and
\* two texts).
Returned_node == IF "node" \in DOMAIN ret THEN ret.node ELSE ret

\* C26: statement() is entered only from statement_list, in Normal mode and
\* with the cursor on a token that starts a statement; the mode is Normal when
\* consume('FOR') has returned to for_loop; so the skip loop of statement() is
\* never run and no ErrorRecoveryStatement node is built.
C26_StatementEnteredInNormalMode ==
    /\ \A i \in 1..Len(stack) :
          stack[i].proc = "statement" =>
              /\ i > 1 /\ stack[i - 1].proc = "statement_list"
              /\ stack[i].pc # "skip"
              /\ stack[i].pc = "entry" /\ i = Len(stack) =>
                    ~panic_mode /\ Present /\ cur.type \in StatementStart
    /\ Running("for_loop") /\ Top.pc = "header" => ~panic_mode
    /\ \A n \in NodesInHand \cup {Returned_node, result} :
          n.type # "ErrorRecoveryStatement"

\* statement() is entered, and consume('FOR') has returned to for_loop, after a
\* recovery from a mismatch.
C26_Witness ==
    /\ obs.mismatched
    /\ Running("for_loop") /\ Top.pc = "header"
    /\ \E i \in 1..Len(stack) : stack[i].proc = "for_loop" /\ i < Len(stack) - 1

(***************************************************************************)
(* Operators in the text                                                   *)
(***************************************************************************)
OperatorChars == {"+", "-", "*", "/"}

\* The indices of the text a step of the lexer goes over: up to the end of
\* the match it finds, or up to the end of the text when it finds none.
PassedOver ==
    IF exhausted' THEN (scan + 1)..Len(input_code) ELSE (scan + 1)..scan'

\* C27: each +, -, * or / the lexer goes over is either inside the numeric or
\* string literal yielded by that step, or is yielded by that step as one
\* OPERATOR token whose text is that character alone, whatever follows it.
C27_OperatorsLexed ==
    [][\A i \in PassedOver :
          At(input_code, i) \in OperatorChars =>
              /\ yielded'.start \in (scan + 1)..i
              /\ \/ /\ yielded'.type \in {"INT", "FLOAT", "STRING_LITERAL"}
                    /\ i < yielded'.start + Len(yielded'.value)
                 \/ /\ yielded'.type = "OPERATOR"
                    /\ yielded'.start = i
                    /\ yielded'.value = <<input_code[i]>>]_vars

(***************************************************************************)
(* A mismatch on the closing END                                           *)
(***************************************************************************)
\* The kinds some skip loop of the parser stops at.
SyncPoints == ProgramSync \cup StatementSync \cup ForLoopSync

====
